---- MODULE Spec2Model ----
(***************************************************************************)
(* Box tree of weasyprint.formatting_structure.boxes.                      *)
(*                                                                         *)
(* The heap holds style objects (`styles`) and box objects (`boxes`); an   *)
(* object's identity is its index.  A box refers to its style, children,   *)
(* outside list marker and column groups by identity, as Python object     *)
(* references do, so aliasing between boxes is observable.                 *)
(*                                                                         *)
(* element_tag, sourceline, width/height, bookmark_label and the           *)
(* replacement payload are carried unchanged by every operation modelled   *)
(* here and are read by none of them; they are left out of the records.    *)
(***************************************************************************)
EXTENDS Integers, Sequences, FiniteSets

VARIABLES
    styles,   \* heap of style objects: Seq(style record)
    boxes,    \* heap of box objects: Seq(box record)
    last,     \* the last call: operation, arguments, result
    pre,      \* the heap as it was before the last call
    supplied  \* the style objects the cascade handed over

vars == <<styles, boxes, last, pre, supplied>>

----------------------------------------------------------------------------
(* Bounds of the model *)

MaxBoxes == 3
MaxMoveBoxes == 4
MaxMoveKids == 1
MaxWalkBoxes == 4
MaxWrapBoxes == 3
MaxFlowBoxes == 2
MaxTextBoxes == 2
MaxSupplied == 1
MaxKids == 2
MaxGroups == 1
MaxTextLen == 2
MaxShift == 1
MaxSkip == 3

----------------------------------------------------------------------------
(* Encodings *)

\* Python None for an object reference (outside_list_marker = None).
NoBox == 0
\* No bookmark level: style.bookmark_level == 'none', or the class default
\* Box.bookmark_level = None when the instance has no attribute of its own.
NoLevel == 0
\* css.computed_values.ZERO_PIXELS, a length of 0px; style lengths are in px.
ZERO_PIXELS == 0

Sides == {"top", "right", "bottom", "left"}

----------------------------------------------------------------------------
(* Class hierarchy *)

ParentClasses ==
    {"BlockBox", "LineBox", "InlineBox", "InlineBlockBox", "TableBox",
     "InlineTableBox", "TableColumnGroupBox"}

LeafClasses == {"TextBox", "InlineReplacedBox"}

Classes == ParentClasses \cup LeafClasses

\* issubclass(cls, ParentBox)
IsParentBox(cls) == cls \in ParentClasses

\* issubclass(cls, InlineLevelBox): InlineBox, TextBox, and through
\* AtomicInlineLevelBox InlineBlockBox and InlineReplacedBox.  InlineTableBox
\* derives from TableBox(BlockLevelBox, ParentBox) only.
IsInlineLevelBox(cls) ==
    cls \in {"InlineBox", "TextBox", "InlineBlockBox", "InlineReplacedBox"}

\* issubclass(cls, BlockBox)
IsBlockBox(cls) == cls = "BlockBox"

\* issubclass(cls, TableBox)
IsTableBox(cls) == cls \in {"TableBox", "InlineTableBox"}

\* The classes whose margin_* and padding_* are class attributes set to 0
HasNoSpacing(cls) == cls = "TableColumnGroupBox"

\* The classes whose __init__ asserts style.anonymous
RequiresAnonymous(cls) == cls \in {"LineBox", "TextBox"}

----------------------------------------------------------------------------
(* Sequence helpers *)

Range(s) == {s[i] : i \in 1..Len(s)}

NoDup(s) == \A i, j \in 1..Len(s) : i # j => s[i] # s[j]

\* All duplicate-free sequences over S of length at most n
RECURSIVE SeqsUpTo(_, _)
SeqsUpTo(S, n) ==
    IF n = 0 THEN {<<>>}
    ELSE LET shorter == SeqsUpTo(S, n - 1)
         IN shorter \cup {Append(s, x) : s \in shorter, x \in S}

DistinctSeqs(S, n) == {s \in SeqsUpTo(S, n) : NoDup(s)}

----------------------------------------------------------------------------
(* The Style collaborator, at the interface boxes.py uses *)

Directions == {"ltr", "rtl"}
Floats == {"none", "left"}
Positions == {"static", "relative", "absolute", "fixed"}
TextTransforms == {"none", "uppercase", "lowercase", "capitalize"}
Hyphens == {"manual", "none"}

\* Edge lengths that differ on every side and property
DistinctMargin == [s \in Sides |->
    CASE s = "top" -> 1 [] s = "right" -> 2 [] s = "bottom" -> 3 [] OTHER -> 4]
DistinctPadding == [s \in Sides |->
    CASE s = "top" -> 5 [] s = "right" -> 6 [] s = "bottom" -> 7 [] OTHER -> 8]
DistinctBorder == [s \in Sides |->
    CASE s = "top" -> 9 [] s = "right" -> 10 [] s = "bottom" -> 11 [] OTHER -> 12]
ZeroEdges == [s \in Sides |-> 0]

\* A computed style of an element: not anonymous
ElementStyle(dir, level, float, position, transform, hyph) ==
    [margin |-> DistinctMargin, padding |-> DistinctPadding,
     border_width |-> DistinctBorder,
     direction |-> dir, float |-> float, position |-> position,
     bookmark_level |-> level, anonymous |-> FALSE,
     text_transform |-> transform, hyphens |-> hyph]

\* style.inherit_from(): the style of an anonymous box.  Inherited
\* properties propagate, the others take their initial values.
InheritFrom(st) ==
    [margin |-> ZeroEdges, padding |-> ZeroEdges, border_width |-> ZeroEdges,
     direction |-> st.direction, float |-> "none", position |-> "static",
     bookmark_level |-> NoLevel, anonymous |-> TRUE,
     text_transform |-> st.text_transform, hyphens |-> st.hyphens]

\* style.copy(): an independent duplicate, a new object with equal entries.
\* The heap after the copy; the copy is its last object.
StyleCopy(ss, sid) == Append(ss, ss[sid])

----------------------------------------------------------------------------
(* Text *)

\* A lowercase letter, an uppercase letter, U+00AD SOFT HYPHEN
Chars == {"a", "A", "shy"}

Texts == SeqsUpTo(Chars, MaxTextLen)

IsCased(c) == c \in {"a", "A"}
UpperChar(c) == IF c = "a" THEN "A" ELSE c
LowerChar(c) == IF c = "A" THEN "a" ELSE c

\* t.upper(), t.lower()
Upper(t) == [i \in 1..Len(t) |-> UpperChar(t[i])]
Lower(t) == [i \in 1..Len(t) |-> LowerChar(t[i])]

\* t.title(): a cased character is uppercased unless the character before
\* it is cased, and lowercased if it is.
Title(t) ==
    [i \in 1..Len(t) |->
        IF i > 1 /\ IsCased(t[i - 1]) THEN LowerChar(t[i]) ELSE UpperChar(t[i])]

\* text.replace(U+00AD, '')
RECURSIVE StripSoftHyphens(_)
StripSoftHyphens(t) ==
    IF t = <<>> THEN <<>>
    ELSE IF Head(t) = "shy" THEN StripSoftHyphens(Tail(t))
    ELSE <<Head(t)>> \o StripSoftHyphens(Tail(t))

ApplyTextTransform(transform, t) ==
    CASE transform = "uppercase" -> Upper(t)
      [] transform = "lowercase" -> Lower(t)
      [] transform = "capitalize" -> Title(t)
      [] OTHER -> t

\* The text a TextBox stores: TextBox.__init__ after its assertions
TextBoxText(st, t) ==
    LET transformed == ApplyTextTransform(st.text_transform, t)
    IN IF st.hyphens = "none" THEN StripSoftHyphens(transformed)
       ELSE transformed

----------------------------------------------------------------------------
(* Construction and copy.  A heap is [styles |-> ..., boxes |-> ...]; an   *)
(* operation returns the heap it leaves, its new box being the last one.   *)

Heap == [styles |-> styles, boxes |-> boxes]

\* Box.__init__ keeping the style it was given instead of a copy of it
BoxInitAliased(h, cls, sid, kids, marker, groups, text, wrapper) ==
    LET st == h.styles[sid]
        box == [cls |-> cls,
                style |-> sid,
                given |-> sid,
                first_fragment |-> TRUE,
                bookmark_level |->
                    IF st.bookmark_level # NoLevel THEN st.bookmark_level
                    ELSE NoLevel,
                children |-> IF IsParentBox(cls) THEN kids ELSE <<>>,
                outside_list_marker |-> marker,
                column_groups |-> groups,
                is_table_wrapper |-> wrapper,
                text |-> IF cls = "TextBox" THEN TextBoxText(st, text) ELSE <<>>,
                position_x |-> 0, position_y |-> 0,
                margin |-> IF HasNoSpacing(cls) THEN ZeroEdges ELSE st.margin,
                padding |-> IF HasNoSpacing(cls) THEN ZeroEdges ELSE st.padding,
                border_width |-> st.border_width]
    IN [styles |-> h.styles, boxes |-> Append(h.boxes, box)]

\* Box.__init__ with the subclasses' __init__ (ParentBox: children;
\* TextBox: text), past their assertions.  The builder's assignments of
\* is_table_wrapper, outside_list_marker and column_groups, and layout's
\* of the position and of the used margin/padding/border (the style's
\* lengths; a column group's margins and paddings stay the class's zeros),
\* are folded in: a built box is one that went through them.
BoxInit(h, cls, sid, kids, marker, groups, text, wrapper) ==
    LET st == h.styles[sid]
        ss == StyleCopy(h.styles, sid)
        box == [cls |-> cls,
                style |-> Len(ss),
                given |-> sid,
                first_fragment |-> TRUE,
                bookmark_level |->
                    IF st.bookmark_level # NoLevel THEN st.bookmark_level
                    ELSE NoLevel,
                children |-> IF IsParentBox(cls) THEN kids ELSE <<>>,
                outside_list_marker |-> marker,
                column_groups |-> groups,
                is_table_wrapper |-> wrapper,
                text |-> IF cls = "TextBox" THEN TextBoxText(st, text) ELSE <<>>,
                position_x |-> 0, position_y |-> 0,
                margin |-> IF HasNoSpacing(cls) THEN ZeroEdges ELSE st.margin,
                padding |-> IF HasNoSpacing(cls) THEN ZeroEdges ELSE st.padding,
                border_width |-> st.border_width]
    IN [styles |-> ss, boxes |-> Append(h.boxes, box)]

\* The assertions of LineBox.__init__ and TextBox.__init__
InitAsserts(h, cls, sid, text) ==
    /\ RequiresAnonymous(cls) => h.styles[sid].anonymous
    /\ cls = "TextBox" => text # <<>>

\* Box.copy() without its last assignment: the copy shares the style
BoxCopySharedStyle(h, b) ==
    [styles |-> h.styles, boxes |-> Append(h.boxes, h.boxes[b])]

\* Box.copy(): a new object with the same attributes and a copy of the style
BoxCopy(h, b) ==
    LET ss == StyleCopy(h.styles, h.boxes[b].style)
    IN [styles |-> ss,
        boxes |-> Append(h.boxes, [h.boxes[b] EXCEPT !.style = Len(ss)])]

\* ParentBox._reset_spacing(side) on box n
ResetSpacing(h, n, side) ==
    LET sid == h.boxes[n].style
    IN [styles |-> [h.styles EXCEPT ![sid].margin[side] = ZERO_PIXELS,
                                    ![sid].padding[side] = ZERO_PIXELS,
                                    ![sid].border_width[side] = 0],
        boxes |-> [h.boxes EXCEPT ![n].margin[side] = 0,
                                  ![n].padding[side] = 0,
                                  ![n].border_width[side] = 0]]

\* InlineLevelBox._remove_decoration without the direction test
StartSideIgnoringDirection(h, n) ==
    IF IsInlineLevelBox(h.boxes[n].cls) THEN "left" ELSE "top"

\* The side _remove_decoration resets for `start`: ParentBox's is the top,
\* InlineLevelBox's the left in ltr and the right otherwise.
StartSide(h, n) ==
    IF IsInlineLevelBox(h.boxes[n].cls)
    THEN (IF h.styles[h.boxes[n].style].direction = "ltr" THEN "left" ELSE "right")
    ELSE "top"

\* The side _remove_decoration resets for `end`
EndSide(h, n) ==
    IF IsInlineLevelBox(h.boxes[n].cls)
    THEN (IF h.styles[h.boxes[n].style].direction = "ltr" THEN "right" ELSE "left")
    ELSE "bottom"

\* _remove_decoration(start, end) on box n
RemoveDecoration(h, n, start, end) ==
    LET h1 == IF start THEN ResetSpacing(h, n, StartSide(h, n)) ELSE h
    IN IF end THEN ResetSpacing(h1, n, EndSide(h1, n)) ELSE h1

\* copy_with_children clearing the marker and keeping the bookmark level
ClearMarkerOnly(h, n) ==
    [h EXCEPT !.boxes[n].outside_list_marker = NoBox,
              !.boxes[n].first_fragment = FALSE]

\* The part of copy_with_children run when is_start is false.
\* first_fragment is a ghost field: whether every copy in the box's lineage
\* was made with is_start true.
ClearFirstFragment(h, n) ==
    [h EXCEPT !.boxes[n].outside_list_marker = NoBox,
              !.boxes[n].bookmark_level =
                  IF @ # NoLevel THEN NoLevel ELSE @,
              !.boxes[n].first_fragment = FALSE]

\* ParentBox.copy_with_children(new_children, is_start, is_end)
CopyWithChildrenOp(h, b, kids, is_start, is_end) ==
    LET h1 == BoxCopy(h, b)
        n == Len(h1.boxes)
        h2 == [h1 EXCEPT !.boxes[n].children = kids]
        h3 == IF ~is_start THEN ClearFirstFragment(h2, n) ELSE h2
    IN RemoveDecoration(h3, n, ~is_start, ~is_end)

\* TextBox.copy_with_text(text), past its assertion
CopyWithTextOp(h, b, text) ==
    LET h1 == BoxCopy(h, b)
    IN [h1 EXCEPT !.boxes[Len(h1.boxes)].text = text]

----------------------------------------------------------------------------
(* Traversal and queries *)

\* all_children() without BlockBox's override
AllChildrenWithoutMarker(bs, b) ==
    LET box == bs[b]
    IN IF IsTableBox(box.cls) THEN box.children \o box.column_groups
       ELSE IF IsParentBox(box.cls) THEN box.children
       ELSE <<>>

\* all_children(): Box's is empty, ParentBox's the children, BlockBox's the
\* children then the outside list marker if any, TableBox's the children
\* then the column groups.
AllChildren(bs, b) ==
    LET box == bs[b]
    IN IF IsBlockBox(box.cls)
       THEN (IF box.outside_list_marker # NoBox
             THEN box.children \o <<box.outside_list_marker>>
             ELSE box.children)
       ELSE IF IsTableBox(box.cls) THEN box.children \o box.column_groups
       ELSE IF IsParentBox(box.cls) THEN box.children
       ELSE <<>>

\* Box.translate(dx, dy): the boxes after the call
RECURSIVE TranslateOp(_, _, _, _)
RECURSIVE TranslateEach(_, _, _, _)
TranslateOp(bs, b, dx, dy) ==
    LET moved == [bs EXCEPT ![b].position_x = @ + dx,
                            ![b].position_y = @ + dy]
    IN TranslateEach(moved, AllChildren(moved, b), dx, dy)
TranslateEach(bs, kids, dx, dy) ==
    IF kids = <<>> THEN bs
    ELSE TranslateEach(TranslateOp(bs, Head(kids), dx, dy), Tail(kids), dx, dy)

\* enumerate_skip yielding (child, index), as its docstring has it
EnumerateSkipChildFirst(bs, b, skip) ==
    LET n == Len(bs[b].children)
    IN [i \in 1..(IF n > skip THEN n - skip ELSE 0) |->
            <<bs[b].children[skip + i], skip + i - 1>>]

\* ParentBox.enumerate_skip(skip_num): the pairs yielded, indexes from 0
EnumerateSkipOp(bs, b, skip) ==
    LET n == Len(bs[b].children)
    IN [i \in 1..(IF n > skip THEN n - skip ELSE 0) |->
            <<skip + i - 1, bs[b].children[skip + i]>>]

\* descendants() that does not descend into its children
DescendantsShallow(bs, b) == <<b>> \o bs[b].children

\* ParentBox.descendants(): the boxes yielded
RECURSIVE DescendantsOp(_, _)
RECURSIVE DescendantsEach(_, _)
DescendantsOp(bs, b) == <<b>> \o DescendantsEach(bs, bs[b].children)
DescendantsEach(bs, kids) ==
    IF kids = <<>> THEN <<>>
    ELSE (IF IsParentBox(bs[Head(kids)].cls)
          THEN DescendantsOp(bs, Head(kids))
          ELSE <<Head(kids)>>)
         \o DescendantsEach(bs, Tail(kids))

\* The first child that is a TableBox instance, NoBox if there is none
RECURSIVE FirstTable(_, _)
FirstTable(bs, kids) ==
    IF kids = <<>> THEN NoBox
    ELSE IF IsTableBox(bs[Head(kids)].cls) THEN Head(kids)
    ELSE FirstTable(bs, Tail(kids))

\* get_wrapped_table() without the loop's else clause
GetWrappedTableSilent(bs, b) ==
    IF bs[b].is_table_wrapper
    THEN [raised |-> "", found |-> FirstTable(bs, bs[b].children)]
    ELSE [raised |-> "", found |-> NoBox]

\* ParentBox.get_wrapped_table(): what it returns (NoBox: None) or raises
GetWrappedTableOp(bs, b) ==
    IF bs[b].is_table_wrapper
    THEN (IF FirstTable(bs, bs[b].children) # NoBox
          THEN [raised |-> "", found |-> FirstTable(bs, bs[b].children)]
          ELSE [raised |-> "ValueError", found |-> NoBox])
    ELSE [raised |-> "", found |-> NoBox]

\* Box.is_floated()
IsFloated(st) == st.float # "none"

\* Box.is_absolutely_positioned()
IsAbsolutelyPositioned(st) == st.position \in {"absolute", "fixed"}

\* is_in_normal_flow() testing the float alone
IsInNormalFlowFloatOnly(st) == ~IsFloated(st)

\* Box.is_in_normal_flow()
IsInNormalFlow(st) == ~(IsFloated(st) \/ IsAbsolutelyPositioned(st))

----------------------------------------------------------------------------
(* Calls *)

NoCall ==
    [op |-> "none", box |-> NoBox, new |-> NoBox, style |-> 0,
     is_start |-> TRUE, is_end |-> TRUE, kids |-> <<>>, text |-> <<>>,
     dx |-> 0, dy |-> 0, skip |-> 0,
     raised |-> "", items |-> <<>>, found |-> NoBox,
     floated |-> FALSE, absolute |-> FALSE, normal |-> FALSE]

Ids == 1..Len(boxes)

\* Boxes no box refers to: what the builder may still put under a parent
Owned ==
    UNION {Range(boxes[b].children) \cup Range(boxes[b].column_groups)
           \cup {boxes[b].outside_list_marker} : b \in Ids}
Orphans == Ids \ Owned

Leaves(h, result) ==
    /\ styles' = h.styles
    /\ boxes' = h.boxes
    /\ last' = result
    /\ pre' = Heap

\* The cascade hands over a computed style object
SupplyStyle(st) ==
    /\ supplied' = supplied \cup {Len(styles) + 1}
    /\ Leaves([Heap EXCEPT !.styles = Append(@, st)],
              [NoCall EXCEPT !.op = "style", !.style = Len(styles) + 1])

\* cls(element_tag, sourceline, style, ...)
NewBox(cls, sid, kids, marker, groups, text, wrapper) ==
    IF InitAsserts(Heap, cls, sid, text)
    THEN Leaves(BoxInit(Heap, cls, sid, kids, marker, groups, text, wrapper),
                [NoCall EXCEPT !.op = "init", !.new = Len(boxes) + 1,
                               !.style = sid, !.text = text])
    ELSE Leaves(Heap, [NoCall EXCEPT !.op = "init", !.style = sid,
                                     !.text = text,
                                     !.raised = "AssertionError"])

\* cls.anonymous_from(parent, ...)
AnonymousFrom(cls, parent, kids, text) ==
    LET inherited == [Heap EXCEPT !.styles =
                        Append(@, InheritFrom(styles[boxes[parent].style]))]
        sid == Len(inherited.styles)
    IN IF InitAsserts(inherited, cls, sid, text)
       THEN Leaves(BoxInit(inherited, cls, sid, kids, NoBox, <<>>, text, FALSE),
                   [NoCall EXCEPT !.op = "anonymous_from", !.box = parent,
                                  !.new = Len(boxes) + 1, !.style = sid,
                                  !.text = text])
       \* the inherited style is unreachable once the constructor raised
       ELSE Leaves(Heap,
                   [NoCall EXCEPT !.op = "anonymous_from", !.box = parent,
                                  !.text = text,
                                  !.raised = "AssertionError"])

\* box.copy()
Copy(b) ==
    Leaves(BoxCopy(Heap, b),
           [NoCall EXCEPT !.op = "copy", !.box = b, !.new = Len(boxes) + 1])

\* box.copy_with_children(new_children, is_start, is_end)
CopyWithChildren(b, kids, is_start, is_end) ==
    /\ IsParentBox(boxes[b].cls)
    /\ Leaves(CopyWithChildrenOp(Heap, b, kids, is_start, is_end),
              [NoCall EXCEPT !.op = "copy_with_children", !.box = b,
                             !.new = Len(boxes) + 1, !.kids = kids,
                             !.is_start = is_start, !.is_end = is_end])

\* box.copy_with_text(text)
CopyWithText(b, text) ==
    /\ boxes[b].cls = "TextBox"
    /\ IF text # <<>>
       THEN Leaves(CopyWithTextOp(Heap, b, text),
                   [NoCall EXCEPT !.op = "copy_with_text", !.box = b,
                                  !.new = Len(boxes) + 1, !.text = text])
       ELSE Leaves(Heap, [NoCall EXCEPT !.op = "copy_with_text", !.box = b,
                                        !.text = text,
                                        !.raised = "AssertionError"])

\* box.translate(dx, dy)
Translate(b, dx, dy) ==
    Leaves([Heap EXCEPT !.boxes = TranslateOp(boxes, b, dx, dy)],
           [NoCall EXCEPT !.op = "translate", !.box = b,
                          !.dx = dx, !.dy = dy])

\* box.enumerate_skip(skip)
EnumerateSkip(b, skip) ==
    /\ IsParentBox(boxes[b].cls)
    /\ Leaves(Heap, [NoCall EXCEPT !.op = "enumerate_skip", !.box = b,
                                   !.skip = skip,
                                   !.items = EnumerateSkipOp(boxes, b, skip)])

\* box.descendants()
Descendants(b) ==
    /\ IsParentBox(boxes[b].cls)
    /\ Leaves(Heap, [NoCall EXCEPT !.op = "descendants", !.box = b,
                                   !.items = DescendantsOp(boxes, b)])

\* box.get_wrapped_table()
GetWrappedTable(b) ==
    /\ IsParentBox(boxes[b].cls)
    /\ LET r == GetWrappedTableOp(boxes, b)
       IN Leaves(Heap, [NoCall EXCEPT !.op = "get_wrapped_table", !.box = b,
                                      !.raised = r.raised, !.found = r.found])

\* box.is_floated(), box.is_absolutely_positioned(), box.is_in_normal_flow()
PositioningScheme(b) ==
    LET st == styles[boxes[b].style]
    IN Leaves(Heap, [NoCall EXCEPT !.op = "positioning_scheme", !.box = b,
                                   !.floated = IsFloated(st),
                                   !.absolute = IsAbsolutelyPositioned(st),
                                   !.normal = IsInNormalFlow(st)])

----------------------------------------------------------------------------
(* Callers: the tree builder and the layout engine, with bounded inputs *)

Init ==
    /\ styles = <<>>
    /\ boxes = <<>>
    /\ last = NoCall
    /\ pre = [styles |-> <<>>, boxes |-> <<>>]
    /\ supplied = {}

Supplies(templates) ==
    /\ Cardinality(supplied) < MaxSupplied
    /\ \E st \in templates : SupplyStyle(st)

\* The builder constructs a box from a style the cascade computed and
\* already built boxes that have no parent yet.  `decorated`: whether it
\* attaches outside list markers (text or replaced boxes) and column groups.
Builds(bound, classes, texts, wrappers, maxKids, decorated) ==
    /\ Len(boxes) < bound
    /\ UNCHANGED supplied
    /\ \E cls \in classes, sid \in supplied :
       \E kids \in (IF IsParentBox(cls) THEN DistinctSeqs(Orphans, maxKids)
                    ELSE {<<>>}) :
       \E marker \in (IF IsBlockBox(cls) /\ decorated
                      THEN {NoBox} \cup {m \in Orphans \ Range(kids) :
                                             boxes[m].cls \in LeafClasses}
                      ELSE {NoBox}) :
       \E groups \in (IF IsTableBox(cls) /\ decorated
                      THEN DistinctSeqs({g \in Orphans \ Range(kids) :
                                boxes[g].cls = "TableColumnGroupBox"}, MaxGroups)
                      ELSE {<<>>}) :
       \E text \in (IF cls = "TextBox" THEN texts ELSE {<<>>}) :
       \E wrapper \in (IF cls \in {"BlockBox", "InlineBlockBox"} THEN wrappers
                       ELSE {FALSE}) :
           NewBox(cls, sid, kids, marker, groups, text, wrapper)

BuildsAnonymous(bound, classes, texts) ==
    /\ Len(boxes) < bound
    /\ UNCHANGED supplied
    /\ \E cls \in classes, parent \in Ids :
       \E kids \in (IF IsParentBox(cls) THEN DistinctSeqs(Orphans, MaxKids)
                    ELSE {<<>>}) :
       \E text \in (IF cls = "TextBox" THEN texts ELSE {<<>>}) :
           AnonymousFrom(cls, parent, kids, text)

Copies(bound) ==
    /\ Len(boxes) < bound
    /\ UNCHANGED supplied
    /\ \E b \in Ids : Copy(b)

\* Layout fragments a box: the new children are boxes that have no parent yet
Fragments(bound) ==
    /\ Len(boxes) < bound
    /\ UNCHANGED supplied
    /\ \E b \in Ids, is_start \in BOOLEAN, is_end \in BOOLEAN :
       \E kids \in DistinctSeqs(Orphans \ {b}, MaxKids) :
           CopyWithChildren(b, kids, is_start, is_end)

Retexts(bound, texts) ==
    /\ Len(boxes) < bound
    /\ UNCHANGED supplied
    /\ \E b \in Ids, text \in texts : CopyWithText(b, text)

Deltas == {<<1, 2>>, <<0 - 1, 0 - 2>>}

Moves ==
    /\ UNCHANGED supplied
    /\ \E b \in Ids, d \in Deltas :
        /\ \A c \in Ids :
            LET x == TranslateOp(boxes, b, d[1], d[2])[c].position_x
            IN 0 <= x /\ x <= MaxShift
        /\ Translate(b, d[1], d[2])

Enumerates ==
    /\ UNCHANGED supplied
    /\ \E b \in Ids, skip \in 0..MaxSkip : EnumerateSkip(b, skip)

Walks ==
    /\ UNCHANGED supplied
    /\ \E b \in Ids : Descendants(b)

Unwraps ==
    /\ UNCHANGED supplied
    /\ \E b \in Ids : GetWrappedTable(b)

Schemes ==
    /\ UNCHANGED supplied
    /\ \E b \in Ids : PositioningScheme(b)

----------------------------------------------------------------------------
(* Fragmentation: construction and the copies *)

BookmarkLevels == {NoLevel, 1}

FragStyles ==
    {ElementStyle(dir, level, "none", "static", "none", "manual") :
        dir \in Directions, level \in BookmarkLevels}

FragClasses ==
    {"BlockBox", "InlineBox", "InlineBlockBox", "TableBox", "InlineTableBox",
     "TableColumnGroupBox", "LineBox", "TextBox", "InlineReplacedBox"}

FragTexts == {<<>>, <<"a">>}

Supply == Supplies(FragStyles)
Build == Builds(MaxBoxes, FragClasses, FragTexts, {FALSE}, MaxKids, TRUE)
BuildAnonymous == BuildsAnonymous(MaxBoxes, FragClasses, FragTexts)
CopyBox == Copies(MaxBoxes)
Fragment == Fragments(MaxBoxes)
Retext == Retexts(MaxBoxes, FragTexts)

Next == Supply \/ Build \/ BuildAnonymous \/ CopyBox \/ Fragment \/ Retext

Spec == Init /\ [][Next]_vars

----------------------------------------------------------------------------
(* Claims on fragmentation *)

IsFragmentCall == last.op = "copy_with_children" /\ last.raised = ""

\* The edges the claim names, from the class and the direction
LeadingEdge(cls, dir) ==
    IF IsInlineLevelBox(cls) THEN (IF dir = "ltr" THEN "left" ELSE "right")
    ELSE "top"
TrailingEdge(cls, dir) ==
    IF IsInlineLevelBox(cls) THEN (IF dir = "ltr" THEN "right" ELSE "left")
    ELSE "bottom"

EdgeProperties == {"margin", "padding", "border_width"}
EdgeOf(rec, prop, side) ==
    CASE prop = "margin" -> rec.margin[side]
      [] prop = "padding" -> rec.padding[side]
      [] OTHER -> rec.border_width[side]

C3_StyleNeverAliased ==
    /\ \A a, b \in Ids : a # b => boxes[a].style # boxes[b].style
    /\ \A b \in Ids : boxes[b].style # boxes[b].given
    /\ \A b \in Ids : boxes[b].style \notin supplied

\* A box built from a supplied style, an anonymous box and a copy exist.
C3_Witness ==
    /\ Len(boxes) = MaxBoxes
    /\ last.op \in {"copy", "copy_with_children", "copy_with_text"}
    /\ last.new # NoBox
    /\ \E b \in Ids : boxes[b].given \in supplied
    /\ \E b \in Ids : boxes[b].given \notin supplied

\* C6 as stated: a box has a bookmark level or an outside list marker only if
\* every copy in its lineage was made with is_start true; a copy made with
\* is_start false has neither, and its all_children() is exactly the new
\* children; a copy made with is_start true keeps those of its source.
C6_AsStated ==
    /\ \A b \in Ids :
        (boxes[b].bookmark_level # NoLevel \/ boxes[b].outside_list_marker # NoBox)
            => boxes[b].first_fragment
    /\ (IsFragmentCall /\ ~last.is_start) =>
        /\ boxes[last.new].bookmark_level = NoLevel
        /\ boxes[last.new].outside_list_marker = NoBox
        /\ AllChildren(boxes, last.new) = last.kids
    /\ (IsFragmentCall /\ last.is_start) =>
        /\ boxes[last.new].bookmark_level = pre.boxes[last.box].bookmark_level
        /\ boxes[last.new].outside_list_marker =
             pre.boxes[last.box].outside_list_marker

\* C6 amended: as stated, except that the all_children() of a continuation
\* copy of a table box is the new children followed by the column groups of
\* the source.
C6_ContinuationFragments ==
    /\ \A b \in Ids :
        (boxes[b].bookmark_level # NoLevel \/ boxes[b].outside_list_marker # NoBox)
            => boxes[b].first_fragment
    /\ (IsFragmentCall /\ ~last.is_start) =>
        /\ boxes[last.new].bookmark_level = NoLevel
        /\ boxes[last.new].outside_list_marker = NoBox
        /\ AllChildren(boxes, last.new) =
             last.kids \o (IF IsTableBox(pre.boxes[last.box].cls)
                           THEN pre.boxes[last.box].column_groups ELSE <<>>)
    /\ (IsFragmentCall /\ last.is_start) =>
        /\ boxes[last.new].bookmark_level = pre.boxes[last.box].bookmark_level
        /\ boxes[last.new].outside_list_marker =
             pre.boxes[last.box].outside_list_marker

\* A block box with a bookmark level and an outside list marker was copied
\* as a continuation.
C6_Witness ==
    /\ IsFragmentCall
    /\ ~last.is_start
    /\ pre.boxes[last.box].cls = "BlockBox"
    /\ pre.boxes[last.box].bookmark_level # NoLevel
    /\ pre.boxes[last.box].outside_list_marker # NoBox
    /\ pre.boxes[last.box].first_fragment

\* C10: copy_with_children leaves its source as it was: children, resolved
\* margin/padding/border, style entries, bookmark level, outside list marker.
C10_SourceUnchanged ==
    IsFragmentCall =>
        /\ boxes[last.box] = pre.boxes[last.box]
        /\ styles[boxes[last.box].style] = pre.styles[pre.boxes[last.box].style]

\* A source with non-zero edges, a bookmark level and a marker was copied
\* with both edges stripped.
C10_Witness ==
    /\ IsFragmentCall
    /\ ~last.is_start /\ ~last.is_end
    /\ pre.boxes[last.box].bookmark_level # NoLevel
    /\ pre.boxes[last.box].outside_list_marker # NoBox
    /\ pre.boxes[last.box].margin["top"] # 0
    /\ boxes[last.new].margin["top"] = 0
    /\ boxes[last.new].bookmark_level = NoLevel

----------------------------------------------------------------------------
(* Translation of laid-out trees *)

MoveStyles == {ElementStyle("ltr", NoLevel, "none", "static", "none", "manual")}

MoveClasses ==
    {"BlockBox", "TableBox", "TableColumnGroupBox", "InlineReplacedBox"}

SupplyMove == Supplies(MoveStyles)
\* The tree is built before layout moves its boxes
BuildMove ==
    /\ last.op # "translate"
    /\ \A b \in Ids : boxes[b].position_x = 0 /\ boxes[b].position_y = 0
    /\ Builds(MaxMoveBoxes, MoveClasses, {<<>>}, {FALSE}, MaxMoveKids, TRUE)

NextMove == SupplyMove \/ BuildMove \/ Moves

SpecMove == Init /\ [][NextMove]_vars

\* What the claim counts as the boxes directly under b
OwnedSeq(bs, b) ==
    bs[b].children
    \o (IF bs[b].cls = "BlockBox" /\ bs[b].outside_list_marker # NoBox
        THEN <<bs[b].outside_list_marker>> ELSE <<>>)
    \o (IF bs[b].cls \in {"TableBox", "InlineTableBox"}
        THEN bs[b].column_groups ELSE <<>>)

\* b and every box under it; a box refers only to boxes built before it
RECURSIVE Subtree(_, _)
Subtree(bs, b) ==
    {b} \cup UNION {Subtree(bs, c) : c \in Range(OwnedSeq(bs, b))}

\* Under b every box has one parent and is listed by it once
StrictTree(bs, b) ==
    /\ \A p \in Subtree(bs, b) : NoDup(OwnedSeq(bs, p))
    /\ \A c \in Subtree(bs, b) \ {b} :
        Cardinality({p \in Subtree(bs, b) : c \in Range(OwnedSeq(bs, p))}) = 1
    /\ \A p \in Subtree(bs, b) : b \notin Range(OwnedSeq(bs, p))

IsTranslateCall == last.op = "translate"

\* C2: in a strict tree, translate(dx, dy) moves the box and every box under
\* it (children, outside list marker, column groups, recursively) by exactly
\* (dx, dy), changes nothing else, and translate(-dx, -dy) then restores
\* every position.
C2_TranslateSubtree ==
    (IsTranslateCall /\ StrictTree(pre.boxes, last.box)) =>
        /\ Len(boxes) = Len(pre.boxes)
        /\ \A c \in Ids :
            LET moved == c \in Subtree(pre.boxes, last.box)
            IN /\ boxes[c].position_x =
                    pre.boxes[c].position_x + (IF moved THEN last.dx ELSE 0)
               /\ boxes[c].position_y =
                    pre.boxes[c].position_y + (IF moved THEN last.dy ELSE 0)
               /\ [boxes[c] EXCEPT !.position_x = 0, !.position_y = 0] =
                    [pre.boxes[c] EXCEPT !.position_x = 0, !.position_y = 0]
        /\ TranslateOp(boxes, last.box, 0 - last.dx, 0 - last.dy) = pre.boxes

\* A block box with a child table that has a column group, and with an
\* outside list marker, was moved; another box was not.
C2_Witness ==
    /\ IsTranslateCall
    /\ last.dx # 0 /\ last.dy # 0
    /\ boxes[last.box].cls = "BlockBox"
    /\ boxes[last.box].outside_list_marker # NoBox
    /\ \E t \in Range(boxes[last.box].children) :
        /\ boxes[t].cls = "TableBox"
        /\ boxes[t].column_groups # <<>>
        /\ boxes[boxes[t].column_groups[1]].position_x # 0

----------------------------------------------------------------------------
(* Tree walks, and table wrappers *)

\* An anonymous style: every class can be built from it
WalkStyles ==
    {InheritFrom(ElementStyle("ltr", NoLevel, "none", "static", "none", "manual"))}

WalkClasses == {"BlockBox", "InlineBox", "TextBox"}

SupplyWalk == Supplies(WalkStyles)
BuildWalk == Builds(MaxWalkBoxes, WalkClasses, {<<"a">>}, {FALSE}, MaxKids, FALSE)

NextWalk == SupplyWalk \/ BuildWalk \/ Enumerates \/ Walks

SpecWalk == Init /\ [][NextWalk]_vars

WrapClasses == {"BlockBox", "TableBox", "InlineTableBox", "InlineReplacedBox"}

SupplyWrap == Supplies(WalkStyles)
BuildWrap == Builds(MaxWrapBoxes, WrapClasses, {<<>>}, BOOLEAN, MaxKids, FALSE)

NextWrap == SupplyWrap \/ BuildWrap \/ Unwraps

SpecWrap == Init /\ [][NextWrap]_vars

\* C4: on a table wrapper, get_wrapped_table() returns the TableBox or
\* InlineTableBox among the children when there is one, and raises when
\* there is none.
C4_WrappedTable ==
    (last.op = "get_wrapped_table" /\ boxes[last.box].is_table_wrapper) =>
        LET kids == boxes[last.box].children
            tables == {i \in 1..Len(kids) :
                         boxes[kids[i]].cls \in {"TableBox", "InlineTableBox"}}
        IN IF tables = {}
           THEN last.raised = "ValueError" /\ last.found = NoBox
           ELSE /\ last.raised = ""
                /\ \E i \in tables : /\ last.found = kids[i]
                                     /\ \A j \in tables : i <= j

\* A table wrapper with children, none of them a table, was asked for its table.
C4_Witness ==
    /\ last.op = "get_wrapped_table"
    /\ boxes[last.box].is_table_wrapper
    /\ boxes[last.box].children # <<>>
    /\ last.raised = "ValueError"

RECURSIVE ChildSubtree(_, _)
ChildSubtree(bs, b) ==
    {b} \cup UNION {ChildSubtree(bs, c) : c \in Range(bs[b].children)}

StrictChildTree(bs, b) ==
    /\ \A p \in ChildSubtree(bs, b) : NoDup(bs[p].children)
    /\ \A c \in ChildSubtree(bs, b) \ {b} :
        Cardinality({p \in ChildSubtree(bs, b) : c \in Range(bs[p].children)}) = 1

\* C8: descendants() yields the box first, then every box of its subtree
\* exactly once, in pre-order: a parent right before its first child, the
\* subtree of a box in one run starting at the box, siblings in children
\* order.
C8_DescendantsPreOrder ==
    (last.op = "descendants" /\ StrictChildTree(boxes, last.box)) =>
        LET s == last.items
            At(b) == CHOOSE i \in 1..Len(s) : s[i] = b
        IN /\ s # <<>> /\ s[1] = last.box
           /\ NoDup(s)
           /\ Range(s) = ChildSubtree(boxes, last.box)
           /\ \A p \in Range(s) :
                LET kids == boxes[p].children
                    size == Cardinality(ChildSubtree(boxes, p))
                IN /\ {s[i] : i \in At(p)..(At(p) + size - 1)} =
                        ChildSubtree(boxes, p)
                   /\ kids # <<>> => At(kids[1]) = At(p) + 1
                   /\ \A j \in 1..(Len(kids) - 1) :
                        At(kids[j + 1]) =
                          At(kids[j]) + Cardinality(ChildSubtree(boxes, kids[j]))

\* A box with two children, the first with a text box of its own, was walked.
C8_Witness ==
    /\ last.op = "descendants"
    /\ Len(last.items) = 4
    /\ boxes[last.items[3]].cls = "TextBox"
    /\ Len(boxes[last.box].children) = 2
    /\ boxes[boxes[last.box].children[1]].children # <<>>
    /\ last.items[3] \in Range(boxes[boxes[last.box].children[1]].children)

----------------------------------------------------------------------------
(* Positioning schemes *)

FlowStyles ==
    {ElementStyle("ltr", NoLevel, float, position, "none", "manual") :
        float \in Floats, position \in Positions}

FlowClasses == {"BlockBox", "InlineBox", "InlineReplacedBox", "TableBox"}

SupplyFlow == Supplies(FlowStyles)
BuildFlow == Builds(MaxFlowBoxes, FlowClasses, {<<>>}, {FALSE}, MaxKids, FALSE)

NextFlow == SupplyFlow \/ BuildFlow \/ Schemes

SpecFlow == Init /\ [][NextFlow]_vars

IsSchemeCall == last.op = "positioning_scheme"

Truths(flags) == Cardinality({i \in 1..Len(flags) : flags[i]})

\* C5 as stated: exactly one of is_floated(), is_absolutely_positioned() and
\* is_in_normal_flow() is true, and is_in_normal_flow() is true exactly when
\* neither of the others is.
C5_AsStated ==
    IsSchemeCall =>
        /\ Truths(<<last.floated, last.absolute, last.normal>>) = 1
        /\ last.normal <=> (~last.floated /\ ~last.absolute)

\* C5 amended: is_in_normal_flow() is true exactly when neither of the others
\* is, and exactly one of the three is true unless the style has a float
\* other than 'none' together with position 'absolute' or 'fixed': then
\* is_floated() and is_absolutely_positioned() are both true.
C5_PositioningSchemes ==
    IsSchemeCall =>
        LET st == styles[boxes[last.box].style]
            both == st.float # "none" /\ st.position \in {"absolute", "fixed"}
        IN /\ last.normal <=> (~last.floated /\ ~last.absolute)
           /\ last.floated <=> st.float # "none"
           /\ last.absolute <=> st.position \in {"absolute", "fixed"}
           /\ ~both => Truths(<<last.floated, last.absolute, last.normal>>) = 1
           /\ both => last.floated /\ last.absolute /\ ~last.normal

\* A box with float: left and position: absolute was asked for its scheme.
C5_Witness ==
    /\ IsSchemeCall
    /\ styles[boxes[last.box].style].float = "left"
    /\ styles[boxes[last.box].style].position = "absolute"
    /\ last.floated /\ last.absolute

----------------------------------------------------------------------------
(* Text boxes *)

TextStyles ==
    {InheritFrom(ElementStyle("ltr", NoLevel, "none", "static", transform, hyph)) :
        transform \in TextTransforms, hyph \in Hyphens}
    \cup {ElementStyle("ltr", NoLevel, "none", "static", "none", "manual")}

SupplyText == Supplies(TextStyles)
BuildText == Builds(MaxTextBoxes, {"TextBox"}, Texts, {FALSE}, MaxKids, FALSE)
BuildAnonymousText == BuildsAnonymous(MaxTextBoxes, {"TextBox"}, Texts)
RetextText == Retexts(MaxTextBoxes, Texts)

NextText == SupplyText \/ BuildText \/ BuildAnonymousText \/ RetextText

SpecText == Init /\ [][NextText]_vars

\* C9: the text of every TextBox is non-empty, after construction and after
\* copy_with_text; a call given empty text raises and makes no box.
C9_TextNeverEmpty ==
    /\ \A b \in Ids : boxes[b].cls = "TextBox" => boxes[b].text # <<>>
    /\ (last.op \in {"init", "anonymous_from", "copy_with_text"}
        /\ last.text = <<>>) =>
            last.raised = "AssertionError" /\ boxes = pre.boxes

====
